---------------------------- MODULE Spec2Model ----------------------------
(***************************************************************************)
(* LitEpub: the click handler of app.js (series / single-story scraping,   *)
(* the pagination loop, the EPUB assembler) as a state machine, and the    *)
(* service worker of sw.js (install, activate, fetch) as another.          *)
(*                                                                         *)
(* Strings are sequences of tokens (a token is a character or an           *)
(* indivisible piece of text), so that trim, toLowerCase, includes,        *)
(* startsWith, split and concatenation are computed, not assumed.          *)
(***************************************************************************)
EXTENDS Integers, Sequences, FiniteSets, TLC

VARIABLES
    site,         \* the web site behind the proxy (environment, fixed)
    urlInput,     \* urlInput.value, as the operator typed it
    btnDisabled,  \* convertBtn.disabled
    status,       \* the status element's text
    pc,           \* where the click handler's async call chain is suspended
    url,          \* click handler: url
    ser,          \* processSeries locals
    meta,         \* processSingleStory: meta
    pag,          \* fetchAllPagesOfStory locals
    inflight,     \* fetch() requests not yet answered
    timers,       \* setTimeout timers not yet fired
    jobs,         \* generateEpub calls suspended at zip.generateAsync
    downloads,    \* saveAs calls made so far: <<[run, name, zip]>>
    runNo,        \* number of runs started (history)
    fetches,      \* fetchPage calls of the current run (history)
    returned,     \* fetchAllPagesOfStory calls of the current run that returned (history)
    trace,        \* fetch / timer events of the current run (history)
    detect,       \* the last run of the next-button detection (history)
    outcome,      \* how the current run ended (history)
    caches,       \* sw.js: the origin's CacheStorage, in order of creation
    sw            \* sw.js: the worker's life cycle, pending promises, answers given (history)

appVars == <<site, urlInput, btnDisabled, status, pc, url, ser, meta, pag, inflight, timers,
             jobs, downloads, runNo, fetches, returned, trace, detect, outcome>>

swVars == <<caches, sw>>

vars == <<appVars, swVars>>

----------------------------------------------------------------------------
(* Bounds of the model *)

\* number of stories the site holds, and the longest series page
MaxChapters == 2

\* clicks on the convert button that start a run
MaxRuns == 1

\* fetch events the service worker answers
MaxEvents == 2

(* Program constants *)

MAX_PAGES == 50

PAGE_DELAY == 300

\* the delay between chapters written as the one between pages
ChapterDelayAsPageDelay == PAGE_DELAY

CHAPTER_DELAY == 500

CORS_PROXY == <<"https://corsproxy.io/?">>

\* 'https://' (app.js:14)
HTTPS_PREFIX == <<"http", "s", "://">>

\* 'https://www.literotica.com' (app.js:87)
SITE_ORIGIN == <<"http", "s", "://", "www.literotica.com">>

\* the separator inserted between the pages of a chapter (app.js:148)
PAGE_BREAK == <<"<hr class=\"page-break\" style=\"margin: 2em 0; border-top: 2px dashed #666;\" />">>

\* querySelector's null
Null == <<"#null">>

----------------------------------------------------------------------------
(* JavaScript string operations on token sequences *)

Min(a, b) == IF a < b THEN a ELSE b

\* s.startsWith(p)
StartsWith(s, p) == Len(p) <= Len(s) /\ SubSeq(s, 1, Len(p)) = p

\* s.includes(sub)
Includes(s, sub) ==
    \E i \in 0..(Len(s) - Len(sub)) : SubSeq(s, i + 1, i + Len(sub)) = sub

\* s.indexOf(tok) for a one-token needle, 1-based; 0 when absent
IndexOf(s, tok) ==
    IF \E i \in 1..Len(s) : s[i] = tok
    THEN CHOOSE i \in 1..Len(s) : s[i] = tok /\ \A j \in 1..(i - 1) : s[j] # tok
    ELSE 0

\* s.split(tok)[0]
SplitFirst(s, tok) ==
    IF IndexOf(s, tok) = 0 THEN s ELSE SubSeq(s, 1, IndexOf(s, tok) - 1)

WhiteSpace == {" ", "\n", "\t"}

\* s.trim()
Trim(s) ==
    LET keep == {i \in 1..Len(s) : s[i] \notin WhiteSpace}
    IN  IF keep = {} THEN <<>>
        ELSE SubSeq(s, CHOOSE i \in keep : \A j \in keep : i <= j,
                       CHOOSE i \in keep : \A j \in keep : j <= i)

UpperTokens == <<"N", "E", "X", "T", "Next", "Next Page", "Pager-Next", "Previous Page",
                 "Go to ", "Home", "Prev", "Chapter", "Story", "HTTP", "S">>

LowerTokens == <<"n", "e", "x", "t", "next", "next page", "pager-next", "previous page",
                 "go to ", "home", "prev", "chapter", "story", "http", "s">>

LowerToken(t) ==
    IF \E i \in 1..Len(UpperTokens) : UpperTokens[i] = t
    THEN LowerTokens[CHOOSE i \in 1..Len(UpperTokens) : UpperTokens[i] = t]
    ELSE t

\* s.toLowerCase()
ToLowerCase(s) == [i \in 1..Len(s) |-> LowerToken(s[i])]

Digit == <<"0", "1", "2", "3", "4", "5", "6", "7", "8", "9">>

RECURSIVE NumStr(_)
\* String(n), `${n}`
NumStr(n) ==
    IF n < 10 THEN <<Digit[n + 1]>>
    ELSE NumStr(n \div 10) \o <<Digit[(n % 10) + 1]>>

\* chapter.content.replace(/&nbsp;/g, ' ')
ReplaceNbsp(s) == [i \in 1..Len(s) |-> IF s[i] = "&nbsp;" THEN " " ELSE s[i]]

\* /^https?:\/\//i.test(url)
HasScheme(u) ==
    \/ StartsWith(ToLowerCase(u), <<"http", "://">>)
    \/ StartsWith(ToLowerCase(u), <<"http", "s", "://">>)

EncodeToken(t) ==
    CASE t = "://" -> "%3A%2F%2F"
      [] t = "/s/" -> "%2Fs%2F"
      [] t = "/series/se/" -> "%2Fseries%2Fse%2F"
      [] t = "?" -> "%3F"
      [] t = "&" -> "%26"
      [] t = "page=" -> "page%3D"
      [] t = "t=" -> "t%3D"
      [] OTHER -> t

\* encodeURIComponent(s)
EncodeURIComponent(s) == [i \in 1..Len(s) |-> EncodeToken(s[i])]

----------------------------------------------------------------------------
(* The environment: the site, and the documents its pages parse to *)

\* how many physical pages the long story of a site may have
PageCounts == {1, 2, 3, MAX_PAGES, MAX_PAGES + 1}

\* M: entries on the series page; story `long` has k pages; alt: the site's
\* markup variant (which entries of the series page carry root-relative hrefs,
\* and whether its pages carry the title and author elements)
Sites == [M : 0..MaxChapters, long : 1..MaxChapters, k : PageCounts, alt : BOOLEAN]

\* number of physical pages of story s
Pages(st, s) == IF s = st.long THEN st.k ELSE 1 + (s % 2)

\* the inner markup of the content container of page p of story s
Fragment(s, p) ==
    <<"<p>">> \o NumStr(s) \o <<":">> \o NumStr(p)
        \o (IF p % 2 = 0 THEN <<"&nbsp;">> ELSE <<>>) \o <<"</p>">>

StoryPath(s) == <<"/s/", "story-">> \o NumStr(s)

SeriesPath == <<"/series/se/", "42">>

StoryTitle(s, p) ==
    <<" ", "Story ">> \o NumStr(s) \o (IF p = 1 THEN <<>> ELSE <<" - Page ">> \o NumStr(p)) \o <<"\n">>

StoryAuthor(s) == <<"author-">> \o NumStr(s)

EntryHref(st, i) ==
    IF (i % 2 = 1) = st.alt THEN StoryPath(i) ELSE SITE_ORIGIN \o StoryPath(i)

EntryText(i) == <<"\n", " ", "Ch ">> \o NumStr(i) \o <<" ">>

Anchor(text, cls, title) == [text |-> text, cls |-> cls, title |-> title]

A_home == Anchor(<<"Home">>, <<>>, <<>>)
A_prev == Anchor(<<"«", " ", "Prev">>, <<"b-", "pager-prev">>, <<"Previous Page">>)
A_nextChapter == Anchor(<<"N", "e", "x", "t", " ", "Chapter">>, <<>>, <<"Next", " ", "Story">>)
A_textNext == Anchor(<<" ", "N", "e", "x", "t", "\n">>, <<>>, <<>>)
A_textNextRaquo == Anchor(<<"Go to ", "N", "E", "X", "T", " ", "»">>, <<>>, <<>>)
A_raquo == Anchor(<<" ", "»", " ">>, <<>>, <<>>)
A_clsPager == Anchor(<<"2">>, <<"l_bJ ", "Pager-Next">>, <<>>)
A_clsBPager == Anchor(<<>>, <<"b-", "pager-next">>, <<>>)
A_titleNext == Anchor(<<">">>, <<>>, <<"Go to ", "Next Page">>)

\* anchor lists of pages that carry a next-page control
NextLists ==
    << <<A_home, A_textNext>>, <<A_prev, A_textNextRaquo>>, <<A_raquo>>,
       <<A_clsPager, A_home>>, <<A_prev, A_clsBPager, A_textNext>>, <<A_titleNext>> >>

\* anchor lists of pages that carry none
LastLists == << <<>>, <<A_home, A_prev>>, <<A_nextChapter, A_prev>> >>

\* the anchors of page p of story s on a site
AnchorsOf(st, s, p) ==
    IF p < Pages(st, s) THEN NextLists[((s + p) % Len(NextLists)) + 1]
    ELSE LastLists[((s + p) % Len(LastLists)) + 1]

TitleSelectors == <<"h1._title_2d1pc_26", "h1.headline", "h1">>

AuthorSelectors == <<"._author__title_2mplv_48", ".y_eU", ".b-story-user-y">>

ContentSelectors == <<"._article__content_14oe9_81 > div:first-child", ".b-story-body-x", ".aa_ht">>

Selectors ==
    {TitleSelectors[i] : i \in 1..3} \cup {AuthorSelectors[i] : i \in 1..3}
        \cup {ContentSelectors[i] : i \in 1..3}

NoMatch == [s \in Selectors |-> Null]

\* layout 0 is a page structure none of the content selectors knows
Layouts == 0..3

\* a parsed document: its title, what querySelector finds (textContent, or
\* innerHTML for the content containers), its anchors, its series entries
StoryDoc(s, p, layout, withMeta, anchors) ==
    [ title |-> <<"Story">>,
      q |-> [sel \in Selectors |->
                IF layout # 0 /\ sel = ContentSelectors[layout] THEN Fragment(s, p)
                ELSE IF withMeta /\ layout # 0 /\ sel = TitleSelectors[layout] THEN StoryTitle(s, p)
                ELSE IF withMeta /\ layout # 0 /\ sel = "h1" THEN StoryTitle(s, p)
                ELSE IF withMeta /\ layout # 0 /\ sel = AuthorSelectors[layout] THEN StoryAuthor(s)
                ELSE Null],
      anchors |-> anchors,
      chapterLinks |-> <<>> ]

SeriesDoc(st, withMeta) ==
    [ title |-> <<"Series">>,
      q |-> [sel \in Selectors |->
                IF withMeta /\ sel = "h1.headline" THEN <<" ", "The Series", " ">>
                ELSE IF withMeta /\ sel = ".y_eU" THEN <<"series-author">>
                ELSE Null],
      anchors |-> <<A_home>>,
      chapterLinks |-> [i \in 1..st.M |-> [href |-> EntryHref(st, i), textContent |-> EntryText(i)]] ]

\* anti-bot challenge pages
ChallengeDocs ==
    { [title |-> t, q |-> NoMatch, anchors |-> <<>>, chapterLinks |-> <<>>] :
        t \in { <<"Just a moment", "...">>, <<"Attention Required! | ", "Cloudflare">> } }

DigitVal(t) == (CHOOSE i \in 1..10 : Digit[i] = t) - 1

IsDigits(s) == Len(s) > 0 /\ \A i \in 1..Len(s) : \E d \in 1..10 : Digit[d] = s[i]

RECURSIVE ParseInt(_)
ParseInt(s) ==
    IF Len(s) = 1 THEN DigitVal(s[1])
    ELSE 10 * ParseInt(SubSeq(s, 1, Len(s) - 1)) + DigitVal(s[Len(s)])

\* what a URL addresses on the site: the series page, page p of story s, or nothing
Resolve(u) ==
    LET i == IndexOf(u, "/s/")
        q == IndexOf(u, "?")
        path == SplitFirst(SubSeq(u, i + 2, Len(u)), "?")
        pageArg == SubSeq(u, q + 2, Len(u))
    IN  IF IndexOf(u, "/series/se/") # 0 THEN [kind |-> "series", s |-> 0, p |-> 0]
        ELSE IF i # 0 /\ i < Len(u) /\ u[i + 1] = "story-" /\ IsDigits(path)
        THEN [ kind |-> "story", s |-> ParseInt(path),
               p |-> IF q # 0 /\ q < Len(u) /\ u[q + 1] = "page=" /\ IsDigits(pageArg)
                     THEN ParseInt(pageArg) ELSE 1 ]
        ELSE [kind |-> "none", s |-> 0, p |-> 0]

\* the documents the site may answer a request for u with
DocsFor(st, u) ==
    UNION { IF r.kind = "series" THEN {SeriesDoc(st, ~st.alt)}
            ELSE IF r.kind = "story" /\ r.s \in 1..MaxChapters /\ r.p \in 1..Pages(st, r.s)
            THEN {StoryDoc(r.s, r.p, l, ~st.alt, AnchorsOf(st, r.s, r.p)) : l \in Layouts}
            ELSE {} : r \in {Resolve(u)} }

\* what a document of the site is, by the site's own account
DocTruth(st, u, d) ==
    IF Resolve(u).kind = "series" THEN (IF st.M = 0 THEN "no-chapters" ELSE "good")
    ELSE IF \E r \in {Resolve(u)} : d = StoryDoc(r.s, r.p, 0, ~st.alt, AnchorsOf(st, r.s, r.p))
    THEN "unknown-layout" ELSE "good"

\* what fetch() and response.text() may come to: a transport failure, a
\* non-2xx status, or a parsed document
Responses(st, u) ==
    {[kind |-> "reject", message |-> <<"Failed to fetch">>, truth |-> "transport"]}
        \cup {[kind |-> "status", status |-> <<"503">>, truth |-> "http"]}
        \cup {[kind |-> "doc", doc |-> d, truth |-> "challenge"] : d \in ChallengeDocs}
        \cup {[kind |-> "doc", doc |-> d, truth |-> DocTruth(st, u, d)] : d \in DocsFor(st, u)}

----------------------------------------------------------------------------
(* app.js: the synchronous pieces *)

Error(message) == [ok |-> FALSE, message |-> message]

\* fetchPage: cacheBuster
CacheBuster(u) ==
    IF Includes(u, <<"?">>) THEN <<"&", "t=", "Date.now()">> ELSE <<"?", "t=", "Date.now()">>

\* fetchPage: targetUrl
TargetUrl(u) == CORS_PROXY \o EncodeURIComponent(u \o CacheBuster(u))

\* fetchPage: the Cloudflare check
IsChallenge(doc) ==
    Includes(doc.title, <<"Just a moment">>) \/ Includes(doc.title, <<"Cloudflare">>)

\* fetchPage: what the try block comes to for a response
FetchPageTry(resp) ==
    IF resp.kind = "reject" THEN Error(resp.message)
    ELSE IF resp.kind = "status" THEN Error(<<"HTTP Error: ">> \o resp.status)
    ELSE IF IsChallenge(resp.doc)
    THEN Error(<<"Blocked by Cloudflare protection. Try a different network.">>)
    ELSE [ok |-> TRUE, doc |-> resp.doc]

\* fetchPage: the catch clause around the whole body
FetchPageCatch(err) == Error(<<"Network error: ">> \o err.message)

\* fetchPage(url), from the response on
FetchPageResult(resp) ==
    IF FetchPageTry(resp).ok THEN FetchPageTry(resp) ELSE FetchPageCatch(FetchPageTry(resp))

\* a value that `||` takes (an element's text that is neither missing nor empty)
Truthy(text) == text # Null /\ text # <<>>

\* a chain of || that ends without its placeholder
FirstTruthyNoFallback(doc, sels, fallback) == doc.q[sels[1]]

\* a || b || c || fallback over the texts the selectors find
FirstTruthy(doc, sels, fallback) ==
    IF \E i \in 1..Len(sels) : Truthy(doc.q[sels[i]])
    THEN doc.q[sels[CHOOSE i \in 1..Len(sels) :
                      /\ Truthy(doc.q[sels[i]])
                      /\ \A j \in 1..(i - 1) : ~Truthy(doc.q[sels[j]])]]
    ELSE fallback

extractMetadata(doc) ==
    [ title |-> Trim(FirstTruthy(doc, TitleSelectors, <<"Unknown Title">>)),
      author |-> Trim(FirstTruthy(doc, AuthorSelectors, <<"Unknown Author">>)) ]

\* querySelector(a) || querySelector(b) || querySelector(c): elements, so an
\* empty container still counts
ContentDiv(doc) ==
    IF \E i \in 1..3 : doc.q[ContentSelectors[i]] # Null
    THEN doc.q[ContentSelectors[CHOOSE i \in 1..3 :
                  /\ doc.q[ContentSelectors[i]] # Null
                  /\ \A j \in 1..(i - 1) : doc.q[ContentSelectors[j]] = Null]]
    ELSE Null

extractStoryContent(doc) ==
    IF ContentDiv(doc) = Null
    THEN Error(<<"Could not locate story text. The page structure might be unknown or blocked.">>)
    ELSE [ok |-> TRUE, content |-> ContentDiv(doc)]

\* processSeries: seriesTitle
SeriesTitle(doc) ==
    LET t == IF doc.q["h1.headline"] = Null THEN Null ELSE Trim(doc.q["h1.headline"])
    IN  IF Truthy(t) THEN t ELSE <<"Unknown Series">>

\* processSeries: seriesAuthor
SeriesAuthor(doc) ==
    LET t == IF doc.q[".y_eU"] = Null THEN Null ELSE Trim(doc.q[".y_eU"])
    IN  IF Truthy(t) THEN t ELSE <<"Unknown Author">>

\* a chapterUrl that takes every href for a root-relative one
ChapterUrlAlwaysPrefixed(href) == SITE_ORIGIN \o href

\* processSeries: chapterUrl
ChapterUrl(href) == IF StartsWith(href, <<"http">>) THEN href ELSE SITE_ORIGIN \o href

\* a baseUrl that keeps the query string
BaseUrlWithQuery(startUrl) == startUrl

\* fetchAllPagesOfStory: baseUrl
BaseUrl(startUrl) == SplitFirst(startUrl, "?")

\* fetchAllPagesOfStory: currentUrl
CurrentUrl(baseUrl, pageNum) ==
    IF pageNum = 1 THEN baseUrl ELSE baseUrl \o <<"?", "page=">> \o NumStr(pageNum)

\* an accumulation that puts the separator before every page
AccumulateAlwaysSeparated(fullHtml, pageNum, content) == fullHtml \o PAGE_BREAK \o content

\* fetchAllPagesOfStory: fullHtml after a page
Accumulate(fullHtml, pageNum, content) ==
    IF pageNum = 1 THEN content ELSE fullHtml \o PAGE_BREAK \o content

\* a predicate that compares the raw text, class and title
IsNextLinkRaw(a) ==
    \/ a.text = <<"n", "e", "x", "t">>
    \/ Includes(a.text, <<"n", "e", "x", "t", " ", "»">>)
    \/ a.text = <<"»">>
    \/ Includes(a.cls, <<"pager-next">>)
    \/ Includes(a.cls, <<"b-", "pager-next">>)
    \/ Includes(a.title, <<"next page">>)

\* fetchAllPagesOfStory: the predicate handed to links.find
IsNextLink(a) ==
    LET text == ToLowerCase(Trim(a.text))
        cls == ToLowerCase(a.cls)
        title == ToLowerCase(a.title)
    IN  \/ text = <<"n", "e", "x", "t">>
        \/ Includes(text, <<"n", "e", "x", "t", " ", "»">>)
        \/ text = <<"»">>
        \/ Includes(cls, <<"pager-next">>)
        \/ Includes(cls, <<"b-", "pager-next">>)
        \/ Includes(title, <<"next page">>)

\* links.find(...): the index of the anchor found, 0 for undefined
FindNextLink(links) ==
    IF \E i \in 1..Len(links) : IsNextLink(links[i])
    THEN CHOOSE i \in 1..Len(links) :
            IsNextLink(links[i]) /\ \A j \in 1..(i - 1) : ~IsNextLink(links[j])
    ELSE 0

\* a loop condition without the page bound
LoopContinuesUnbounded(hasNext, pageNum) == hasNext

\* fetchAllPagesOfStory: the loop condition
LoopContinues(hasNext, pageNum) == hasNext /\ pageNum <= MAX_PAGES

----------------------------------------------------------------------------
(* generateEpub, up to its await of zip.generateAsync *)

\* a zip.file that drops its options
ZipFileWithoutOptions(zip, name, data, compression) ==
    Append(zip, [name |-> name, dir |-> FALSE, compression |-> "default", data |-> data])

\* JSZip: zip.file(name, data, options) adds the entry or replaces the one of that name
ZipFile(zip, name, data, compression) ==
    LET e == [name |-> name, dir |-> FALSE, compression |-> compression, data |-> data]
    IN  IF \E i \in 1..Len(zip) : zip[i].name = name
        THEN [i \in 1..Len(zip) |-> IF zip[i].name = name THEN e ELSE zip[i]]
        ELSE Append(zip, e)

\* JSZip: zip.folder(name) adds a directory entry
ZipFolder(zip, name) ==
    IF \E i \in 1..Len(zip) : zip[i].name = name \o <<"/">>
    THEN zip
    ELSE Append(zip, [name |-> name \o <<"/">>, dir |-> TRUE,
                      compression |-> "default", data |-> <<>>])

ChapterId(index) == <<"chapter">> \o NumStr(index + 1)

\* a file name that leaves the index out
ChapterFileNameUnnumbered(index) == <<"chapter", ".html">>

ChapterFileName(index) == ChapterId(index) \o <<".html">>

\* the content document of one chapter
XhtmlContent(chapter) ==
    [ title |-> chapter.title, h2 |-> chapter.title, body |-> ReplaceNbsp(chapter.content) ]

\* a forEach body that numbers the navigation points from 0
ForEachBodyZeroBased(acc, chapter, index) ==
    [ zip |-> ZipFile(acc.zip, ChapterFileName(index), XhtmlContent(chapter), "default"),
      manifestItems |-> Append(acc.manifestItems,
          [id |-> ChapterId(index), href |-> ChapterFileName(index),
           mediaType |-> "application/xhtml+xml"]),
      spineItems |-> Append(acc.spineItems, [idref |-> ChapterId(index)]),
      navMapItems |-> Append(acc.navMapItems,
          [ id |-> <<"navPoint-">> \o NumStr(index), playOrder |-> NumStr(index),
            text |-> chapter.title, src |-> ChapterFileName(index) ]) ]

\* one turn of chapters.forEach; index is 0-based as in the code
ForEachBody(acc, chapter, index) ==
    [ zip |-> ZipFile(acc.zip, ChapterFileName(index), XhtmlContent(chapter), "default"),
      manifestItems |-> Append(acc.manifestItems,
          [id |-> ChapterId(index), href |-> ChapterFileName(index),
           mediaType |-> "application/xhtml+xml"]),
      spineItems |-> Append(acc.spineItems, [idref |-> ChapterId(index)]),
      navMapItems |-> Append(acc.navMapItems,
          [ id |-> <<"navPoint-">> \o NumStr(index + 1), playOrder |-> NumStr(index + 1),
            text |-> chapter.title, src |-> ChapterFileName(index) ]) ]

RECURSIVE ForEach(_, _, _)
\* chapters.forEach from index on
ForEach(acc, chapters, index) ==
    IF index >= Len(chapters) THEN acc
    ELSE ForEach(ForEachBody(acc, chapters[index + 1], index), chapters, index + 1)

\* the archive as it stands when generateEpub calls zip.generateAsync
BuildZip(title, author, chapters) ==
    LET z1 == ZipFile(<<>>, <<"mimetype">>, <<"application/epub+zip">>, "STORE")
        z2 == ZipFile(ZipFolder(z1, <<"META-INF">>), <<"META-INF", "/", "container.xml">>,
                      [fullPath |-> <<"content.opf">>], "default")
        acc == ForEach([ zip |-> z2,
                         manifestItems |-> <<[id |-> <<"ncx">>, href |-> <<"toc.ncx">>,
                                              mediaType |-> "application/x-dtbncx+xml"]>>,
                         spineItems |-> <<>>,
                         navMapItems |-> <<>> ], chapters, 0)
        z3 == ZipFile(acc.zip, <<"content.opf">>,
                      [ title |-> title, creator |-> author, language |-> <<"en">>,
                        manifest |-> acc.manifestItems, spine |-> acc.spineItems ], "default")
    IN  ZipFile(z3, <<"toc.ncx">>, [docTitle |-> title, navMap |-> acc.navMapItems], "default")

\* saveAs's file name
EpubName(title) == title \o <<".epub">>

----------------------------------------------------------------------------
(* The click handler and the functions it awaits, cut at their awaits.     *)
(* A step runs from one await to the next, as the event loop runs it; each *)
(* operator below maps the program's state c to the state it leaves.       *)

NoSer == [seriesTitle |-> <<>>, seriesAuthor |-> <<>>, chapterLinks |-> <<>>, i |-> 0, chapters |-> <<>>]

NoMeta == [title |-> <<>>, author |-> <<>>]

NoPag == [ startUrl |-> <<>>, baseUrl |-> <<>>, pageNum |-> 0, fullHtml |-> <<>>,
           hasNext |-> FALSE, prefixLog |-> <<>>, caller |-> "none" ]

NoDetect == [ran |-> FALSE, links |-> <<>>, nextLink |-> 0, page |-> 0]

NoOutcome == [kind |-> "none", message |-> <<>>]

Cur ==
    [ btnDisabled |-> btnDisabled, status |-> status, pc |-> pc, url |-> url,
      ser |-> ser, meta |-> meta, pag |-> pag, inflight |-> inflight, timers |-> timers,
      jobs |-> jobs, runNo |-> runNo, fetches |-> fetches, returned |-> returned,
      trace |-> trace, detect |-> detect, outcome |-> outcome ]

\* (the state c is evaluated once, then assigned field by field)
Apply(c) ==
    \E d \in {c} :
        /\ btnDisabled' = d.btnDisabled
        /\ status' = d.status
        /\ pc' = d.pc
        /\ url' = d.url
        /\ ser' = d.ser
        /\ meta' = d.meta
        /\ pag' = d.pag
        /\ inflight' = d.inflight
        /\ timers' = d.timers
        /\ jobs' = d.jobs
        /\ runNo' = d.runNo
        /\ fetches' = d.fetches
        /\ returned' = d.returned
        /\ trace' = d.trace
        /\ detect' = d.detect
        /\ outcome' = d.outcome

\* a handler without its finally clause
FinallyLeavingDisabled(c) ==
    [c EXCEPT !.pc = "idle", !.url = <<>>, !.ser = NoSer, !.meta = NoMeta, !.pag = NoPag]

\* the handler's finally clause; the frames of the returned functions are gone
Finally(c) ==
    [c EXCEPT !.btnDisabled = FALSE, !.pc = "idle", !.url = <<>>,
              !.ser = NoSer, !.meta = NoMeta, !.pag = NoPag]

ErrorStatus(message) ==
    <<"<span style=\"color:red; font-weight:bold;\">Error: ">> \o message \o <<"</span>">>

\* generateEpub(...) up to its first await; the caller does not await it
GenerateEpub(c, title, author, chapters) ==
    [c EXCEPT !.status = <<"Zipping and downloading...">>,
              !.jobs = Append(@, [run |-> c.runNo, title |-> title,
                                  zip |-> BuildZip(title, author, chapters)]),
              !.outcome = [kind |-> "built", message |-> <<>>]]

\* a catch clause that packages the chapters collected so far
CatchKeepingPartial(c, message) ==
    Finally(GenerateEpub([c EXCEPT !.status = ErrorStatus(message)],
                         c.ser.seriesTitle, c.ser.seriesAuthor, c.ser.chapters))

\* the handler's catch clause, then finally
Catch(c, message) ==
    Finally([c EXCEPT !.status = ErrorStatus(message),
                      !.outcome = [kind |-> "error", message |-> message]])

Event(e, tag, ms) == [e |-> e, tag |-> tag, ms |-> ms]

\* a fetchPage that requests the page after u along with u
FetchPageAhead(c, u, who) ==
    [c EXCEPT !.inflight = @ \cup {[url |-> u, targetUrl |-> TargetUrl(u)],
                                   [url |-> CurrentUrl(BaseUrl(u), 2),
                                    targetUrl |-> TargetUrl(CurrentUrl(BaseUrl(u), 2))]},
              !.fetches = Append(@,
                  [ who |-> who, url |-> u,
                    ch |-> IF who = "page" THEN Len(c.returned) + 1 ELSE 0,
                    page |-> IF who = "page" THEN c.pag.pageNum ELSE 0,
                    start |-> IF who = "page" THEN c.pag.startUrl ELSE u ]),
              !.trace = Append(@, Event("fetch", who, 0)),
              !.detect = NoDetect]

\* fetchPage(u) up to its await of fetch; who: the caller ("series", "meta",
\* or "page" for the pagination loop)
FetchPage(c, u, who) ==
    [c EXCEPT !.inflight = @ \cup {[url |-> u, targetUrl |-> TargetUrl(u)]},
              !.fetches = Append(@,
                  [ who |-> who, url |-> u,
                    ch |-> IF who = "page" THEN Len(c.returned) + 1 ELSE 0,
                    page |-> IF who = "page" THEN c.pag.pageNum ELSE 0,
                    start |-> IF who = "page" THEN c.pag.startUrl ELSE u ]),
              !.trace = Append(@, Event("fetch", who, 0)),
              !.detect = NoDetect]

\* setTimeout(r, ms)
SetTimeout(c, ms) ==
    [c EXCEPT !.timers = @ \cup {ms}, !.trace = Append(@, Event("timer", "", ms))]

\* processSingleStory after fetchAllPagesOfStory returned
AfterStory(c, fullContent) ==
    Finally(GenerateEpub(c, c.meta.title, c.meta.author,
                         <<[title |-> c.meta.title, content |-> fullContent]>>))

\* a push that puts the new chapter first
AfterChapterPrepending(c, fullChapterContent) ==
    SetTimeout(
        [c EXCEPT !.ser.chapters =
                      <<[ title |-> Trim(c.ser.chapterLinks[c.ser.i + 1].textContent),
                          content |-> fullChapterContent ]>> \o @,
                  !.pc = "awaitChapterDelay"],
        CHAPTER_DELAY)

\* processSeries after fetchAllPagesOfStory returned: push, then the polite delay
AfterChapter(c, fullChapterContent) ==
    SetTimeout(
        [c EXCEPT !.ser.chapters =
                      Append(@, [ title |-> Trim(c.ser.chapterLinks[c.ser.i + 1].textContent),
                                  content |-> fullChapterContent ]),
                  !.pc = "awaitChapterDelay"],
        CHAPTER_DELAY)

\* fetchAllPagesOfStory: return fullHtml
Return(c) ==
    LET c1 == [c EXCEPT !.returned = Append(@, [ startUrl |-> c.pag.startUrl,
                                                 content |-> c.pag.fullHtml ]),
                        !.pag = NoPag]
    IN  IF c.pag.caller = "processSeries" THEN AfterChapter(c1, c.pag.fullHtml)
        ELSE AfterStory(c1, c.pag.fullHtml)

\* fetchAllPagesOfStory: the while test, and the loop body up to await fetchPage
LoopHead(c) ==
    IF LoopContinues(c.pag.hasNext, c.pag.pageNum)
    THEN FetchPage(
            [c EXCEPT !.status = c.pag.prefixLog \o <<" Fetching page ">>
                                    \o NumStr(c.pag.pageNum) \o <<"...">>,
                      !.pc = "awaitStoryPage"],
            CurrentUrl(c.pag.baseUrl, c.pag.pageNum), "page")
    ELSE Return(c)

\* fetchAllPagesOfStory(startUrl, status, prefixLog), up to its first await
FetchAllPagesOfStory(c, startUrl, prefixLog, caller) ==
    LoopHead([c EXCEPT !.pag = [ startUrl |-> startUrl, baseUrl |-> BaseUrl(startUrl),
                                 pageNum |-> 1, fullHtml |-> <<>>, hasNext |-> TRUE,
                                 prefixLog |-> prefixLog, caller |-> caller ]])

\* fetchAllPagesOfStory: the loop body after await fetchPage
AfterStoryPage(c, doc) ==
    LET data == extractStoryContent(doc)
        nextLink == FindNextLink(doc.anchors)
        c1 == [c EXCEPT !.pag.fullHtml = Accumulate(@, c.pag.pageNum, data.content),
                        !.detect = [ ran |-> TRUE, links |-> doc.anchors,
                                     nextLink |-> nextLink, page |-> c.pag.pageNum ]]
    IN  IF ~data.ok THEN Catch(c, data.message)
        ELSE IF nextLink # 0
        THEN SetTimeout([c1 EXCEPT !.pag.pageNum = @ + 1, !.pc = "awaitPageDelay"], PAGE_DELAY)
        ELSE LoopHead([c1 EXCEPT !.pag.hasNext = FALSE])

\* processSeries: the for test, and the loop body up to fetchAllPagesOfStory's await
SeriesLoop(c) ==
    IF c.ser.i < Len(c.ser.chapterLinks)
    THEN FetchAllPagesOfStory(c, ChapterUrl(c.ser.chapterLinks[c.ser.i + 1].href),
                              <<"(Ch ">> \o NumStr(c.ser.i + 1) \o <<")">>, "processSeries")
    ELSE Finally(GenerateEpub(c, c.ser.seriesTitle, c.ser.seriesAuthor, c.ser.chapters))

\* processSeries after await fetchPage(url)
AfterSeriesPage(c, doc) ==
    IF Len(doc.chapterLinks) = 0 THEN Catch(c, <<"No chapters found on series page.">>)
    ELSE SeriesLoop([c EXCEPT !.ser = [ seriesTitle |-> SeriesTitle(doc),
                                        seriesAuthor |-> SeriesAuthor(doc),
                                        chapterLinks |-> doc.chapterLinks,
                                        i |-> 0, chapters |-> <<>> ]])

\* processSingleStory after await fetchPage(url)
AfterMetaPage(c, doc) ==
    FetchAllPagesOfStory([c EXCEPT !.meta = extractMetadata(doc)], c.url, <<>>, "processSingleStory")

\* a dispatch on how the url begins
IsSeriesUrlAtStart(u) == StartsWith(u, <<"/series/se/">>)

\* the click listener: url.includes("/series/se/")
IsSeriesUrl(u) == Includes(u, <<"/series/se/">>)

\* the click listener, for a url that is not empty
StartRun(c, u0) ==
    LET u == IF HasScheme(u0) THEN u0 ELSE HTTPS_PREFIX \o u0
        c1 == [c EXCEPT !.btnDisabled = TRUE, !.url = u, !.runNo = @ + 1,
                        !.fetches = <<>>, !.returned = <<>>, !.trace = <<>>,
                        !.detect = NoDetect, !.outcome = [kind |-> "running", message |-> <<>>]]
    IN  IF IsSeriesUrl(u)
        THEN FetchPage([c1 EXCEPT !.status = <<"Fetching series info...">>,
                                  !.pc = "awaitSeriesPage"], u, "series")
        ELSE FetchPage([c1 EXCEPT !.status = <<"Fetching story metadata...">>,
                                  !.pc = "awaitMetaPage"], u, "meta")

\* a response taken off the wire
Answered(c, req, resp) ==
    [c EXCEPT !.inflight = @ \ {req}, !.trace = Append(@, Event("resp", resp.truth, 0))]

\* a timer that fired
Fired(c, ms) == [c EXCEPT !.timers = @ \ {ms}, !.trace = Append(@, Event("fired", "", ms))]

----------------------------------------------------------------------------
(* What the operator may type into urlInput *)

StoryUrl == SITE_ORIGIN \o StoryPath(1)

StoryInputs ==
    { <<" ", " ">>,
      StoryUrl,
      <<" ", "www.literotica.com">> \o StoryPath(1) \o <<"\n">>,
      StoryUrl \o <<"?", "page=", "3">> }

SeriesInputs == { SITE_ORIGIN \o SeriesPath }

\* sites whose series page is empty, visited for their story 1
StorySites == {st \in Sites : st.M = 0 /\ st.long = 1}

\* sites visited for their series page
SeriesSites ==
    {st \in Sites : IF st.M = 0 THEN st.long = 1 /\ st.k = 1 ELSE st.long <= st.M}

\* a site and what the operator typed
Scenarios ==
    {[site |-> st, input |-> u] : st \in StorySites, u \in StoryInputs}
        \cup {[site |-> st, input |-> u] : st \in SeriesSites, u \in SeriesInputs}

----------------------------------------------------------------------------
(* sw.js: the service worker *)

CACHE_NAME == "webtoepub-v5"

ASSETS ==
    << <<"./">>, <<"./", "index.html">>, <<"./", "style.css">>, <<"./", "app.js">>,
       <<"./", "manifest.json">> >>

\* the directory sw.js is served from
SwScope == "https://pages.example/LitEpub/"

\* the absolute URL a path of ASSETS stands for
AssetUrl(a) == <<SwScope>> \o Tail(a)

AssetUrls == {AssetUrl(ASSETS[i]) : i \in 1..Len(ASSETS)}

\* caches.keys()
CacheKeys(cs) == [i \in 1..Len(cs) |-> cs[i].key]

\* caches.open(key): the cache of that name, created if there is none
CachesOpen(cs, key) ==
    IF \E i \in 1..Len(cs) : cs[i].key = key THEN cs
    ELSE Append(cs, [key |-> key, urls |-> {}])

\* cache.addAll(urls) on the cache named key, all requests having succeeded
CacheAddAll(cs, key, urls) ==
    [i \in 1..Len(cs) |-> IF cs[i].key = key THEN [cs[i] EXCEPT !.urls = @ \cup urls] ELSE cs[i]]

\* caches.delete(key)
CachesDelete(cs, key) == SelectSeq(cs, LAMBDA c : c.key # key)

\* a Response, by where it comes from
CachedResponse(key, u) == [from |-> "cache", key |-> key, url |-> u]

NetworkResponse(u) == [from |-> "network", key |-> "", url |-> u]

\* what respondWith settles to when there is no response
Undefined == [from |-> "none", key |-> "", url |-> <<>>]

\* caches.match(request): the first hit, in the caches' order of creation
CachesMatch(cs, u) ==
    IF \E i \in 1..Len(cs) : u \in cs[i].urls
    THEN CachedResponse(
            cs[CHOOSE i \in 1..Len(cs) :
                  u \in cs[i].urls /\ \A j \in 1..(i - 1) : u \notin cs[j].urls].key, u)
    ELSE Undefined

\* an activate handler that deletes every key
IsOldCacheAlways(key) == TRUE

\* activate: the keys whose cache is deleted
IsOldCache(key) == key # CACHE_NAME

\* a fetch handler without its first branch
IsNetworkFirstNever(u) == FALSE

\* fetch: the requests answered from the network first
IsNetworkFirst(u) == Includes(u, <<"app.js">>)

NoEvent == [url |-> <<>>, stage |-> "none", net |-> "none"]

\* the worker as the browser has parsed it, no event dispatched yet
SwParsed ==
    [ phase |-> "parsed", step |-> "none", keyList |-> <<>>, deleting |-> {},
      ev |-> NoEvent, served |-> <<>> ]

\* e.respondWith(...) settles: the answer given to the page
Respond(w, answer) ==
    [w EXCEPT !.ev = NoEvent,
              !.served = Append(@, [url |-> w.ev.url, answer |-> answer, net |-> w.ev.net])]

----------------------------------------------------------------------------
(* The state machine *)

Init ==
    /\ \E sc \in Scenarios : site = sc.site /\ urlInput = sc.input
    /\ btnDisabled = FALSE
    /\ status = <<>>
    /\ pc = "idle"
    /\ url = <<>>
    /\ ser = NoSer
    /\ meta = NoMeta
    /\ pag = NoPag
    /\ inflight = {}
    /\ timers = {}
    /\ jobs = <<>>
    /\ downloads = <<>>
    /\ runNo = 0
    /\ fetches = <<>>
    /\ returned = <<>>
    /\ trace = <<>>
    /\ detect = NoDetect
    /\ outcome = NoOutcome
    /\ caches = <<>>
    /\ sw = SwParsed

\* a click on convertBtn (a disabled button dispatches none)
Click ==
    /\ ~btnDisabled
    /\ runNo < MaxRuns
    /\ IF Trim(urlInput) = <<>>
       THEN Apply([Cur EXCEPT !.status = <<"Please enter a URL">>])
       ELSE Apply(StartRun(Cur, Trim(urlInput)))
    /\ UNCHANGED <<site, urlInput, downloads, swVars>>

\* processSeries: await fetchPage(url) settles
SeriesPageArrives ==
    /\ pc = "awaitSeriesPage"
    /\ \E req \in inflight : \E resp \in Responses(site, req.url) :
          \E r \in {FetchPageResult(resp)} : \E c \in {Answered(Cur, req, resp)} :
              Apply(IF r.ok THEN AfterSeriesPage(c, r.doc) ELSE Catch(c, r.message))
    /\ UNCHANGED <<site, urlInput, downloads, swVars>>

\* processSingleStory: await fetchPage(url) settles
MetaPageArrives ==
    /\ pc = "awaitMetaPage"
    /\ \E req \in inflight : \E resp \in Responses(site, req.url) :
          \E r \in {FetchPageResult(resp)} : \E c \in {Answered(Cur, req, resp)} :
              Apply(IF r.ok THEN AfterMetaPage(c, r.doc) ELSE Catch(c, r.message))
    /\ UNCHANGED <<site, urlInput, downloads, swVars>>

\* fetchAllPagesOfStory: await fetchPage(currentUrl) settles
StoryPageArrives ==
    /\ pc = "awaitStoryPage"
    /\ \E req \in inflight : \E resp \in Responses(site, req.url) :
          \E r \in {FetchPageResult(resp)} : \E c \in {Answered(Cur, req, resp)} :
              Apply(IF r.ok THEN AfterStoryPage(c, r.doc) ELSE Catch(c, r.message))
    /\ UNCHANGED <<site, urlInput, downloads, swVars>>

\* fetchAllPagesOfStory: the 300 ms timer fires
PageDelayElapses ==
    /\ pc = "awaitPageDelay"
    /\ PAGE_DELAY \in timers
    /\ \E c \in {Fired(Cur, PAGE_DELAY)} : Apply(LoopHead(c))
    /\ UNCHANGED <<site, urlInput, downloads, swVars>>

\* processSeries: the 500 ms timer fires; i++
ChapterDelayElapses ==
    /\ pc = "awaitChapterDelay"
    /\ CHAPTER_DELAY \in timers
    /\ \E c \in {[Fired(Cur, CHAPTER_DELAY) EXCEPT !.ser.i = @ + 1]} : Apply(SeriesLoop(c))
    /\ UNCHANGED <<site, urlInput, downloads, swVars>>

\* generateEpub: await zip.generateAsync settles; saveAs; "Done!"
ZipGenerated ==
    /\ \E k \in 1..Len(jobs) :
          /\ downloads' = Append(downloads, [ run |-> jobs[k].run,
                                              name |-> EpubName(jobs[k].title),
                                              zip |-> jobs[k].zip ])
          /\ jobs' = [j \in 1..(Len(jobs) - 1) |-> IF j < k THEN jobs[j] ELSE jobs[j + 1]]
    /\ status' = <<"Done! Check your downloads.">>
    /\ UNCHANGED <<site, urlInput, btnDisabled, pc, url, ser, meta, pag, inflight, timers, runNo,
                   fetches, returned, trace, detect, outcome, swVars>>

Next ==
    \/ Click
    \/ SeriesPageArrives
    \/ MetaPageArrives
    \/ StoryPageArrives
    \/ PageDelayElapses
    \/ ChapterDelayElapses
    \/ ZipGenerated

Spec == Init /\ [][Next]_vars

\* every fetch settles and every timer fires
FairSpec ==
    /\ Spec
    /\ WF_vars(SeriesPageArrives)
    /\ WF_vars(MetaPageArrives)
    /\ WF_vars(StoryPageArrives)
    /\ WF_vars(PageDelayElapses)
    /\ WF_vars(ChapterDelayElapses)

----------------------------------------------------------------------------
(* The service worker's state machine *)

\* caches a previous version of the application, or anything else of the
\* origin, may have left
OldKeys == <<"webtoepub-v4", "WEBTOEPUB-V5", CACHE_NAME, "third-party">>

\* URLs cached under an old key
OldUrls(key) ==
    IF key = "third-party" THEN {<<SwScope, "lib.js">>}
    ELSE {<<SwScope, "app.js">>, <<SwScope, "index.html">>, <<SwScope, "legacy.css">>}

\* the CacheStorage a worker may find: any of the old caches, in their order
OldCaches ==
    { SelectSeq([i \in 1..Len(OldKeys) |-> [key |-> OldKeys[i], urls |-> OldUrls(OldKeys[i])]],
                LAMBDA c : c.key \in K) : K \in SUBSET {OldKeys[i] : i \in 1..Len(OldKeys)} }

\* the requests of the page the worker may see
RequestUrls ==
    { <<SwScope>>, <<SwScope, "index.html">>, <<SwScope, "app.js">>,
      <<SwScope, "app.js", "?v=2">>, <<SwScope, "legacy.css">>,
      CORS_PROXY \o <<"https%3A%2F%2Fwww.literotica.com%2Fs%2Fstory-1">> }

SwInit ==
    /\ site = [M |-> 0, long |-> 1, k |-> 1, alt |-> FALSE]
    /\ urlInput = <<>>
    /\ btnDisabled = FALSE
    /\ status = <<>>
    /\ pc = "idle"
    /\ url = <<>>
    /\ ser = NoSer
    /\ meta = NoMeta
    /\ pag = NoPag
    /\ inflight = {}
    /\ timers = {}
    /\ jobs = <<>>
    /\ downloads = <<>>
    /\ runNo = 0
    /\ fetches = <<>>
    /\ returned = <<>>
    /\ trace = <<>>
    /\ detect = NoDetect
    /\ outcome = NoOutcome
    /\ caches \in OldCaches
    /\ sw = SwParsed

\* install: skipWaiting(); waitUntil(caches.open(CACHE_NAME)...)
SwInstall ==
    /\ sw.phase = "parsed"
    /\ sw' = [sw EXCEPT !.phase = "installing", !.step = "open"]
    /\ UNCHANGED <<caches, appVars>>

\* install: caches.open(CACHE_NAME) settles; cache.addAll(ASSETS) is called
SwCacheOpened ==
    /\ sw.step = "open"
    /\ caches' = CachesOpen(caches, CACHE_NAME)
    /\ sw' = [sw EXCEPT !.step = "addAll"]
    /\ UNCHANGED appVars

\* install: cache.addAll(ASSETS) settles; a failed request fails the installation
SwAddAllSettles ==
    /\ sw.step = "addAll"
    /\ \E ok \in BOOLEAN :
          IF ok
          THEN /\ caches' = CacheAddAll(caches, CACHE_NAME, AssetUrls)
               /\ sw' = [sw EXCEPT !.phase = "installed", !.step = "none"]
          ELSE /\ caches' = caches
               /\ sw' = [sw EXCEPT !.phase = "redundant", !.step = "none"]
    /\ UNCHANGED appVars

\* activate: waitUntil(caches.keys()...)
SwActivate ==
    /\ sw.phase = "installed"
    /\ sw' = [sw EXCEPT !.phase = "activating", !.step = "keys"]
    /\ UNCHANGED <<caches, appVars>>

\* activate: caches.keys() settles; keyList.map calls caches.delete for the old keys
SwKeysSettle ==
    /\ sw.step = "keys"
    /\ LET keyList == CacheKeys(caches)
           doomed == {keyList[i] : i \in {i \in 1..Len(keyList) : IsOldCache(keyList[i])}}
       IN  sw' = [sw EXCEPT !.keyList = keyList, !.deleting = doomed,
                            !.step = IF doomed = {} THEN "none" ELSE "delete",
                            !.phase = IF doomed = {} THEN "activated" ELSE "activating"]
    /\ UNCHANGED <<caches, appVars>>

\* activate: one caches.delete(key) settles; Promise.all settles with the last
SwDeleteSettles ==
    /\ sw.step = "delete"
    /\ \E key \in sw.deleting :
          /\ caches' = CachesDelete(caches, key)
          /\ sw' = [sw EXCEPT !.deleting = @ \ {key},
                              !.step = IF sw.deleting = {key} THEN "none" ELSE "delete",
                              !.phase = IF sw.deleting = {key} THEN "activated" ELSE "activating"]
    /\ UNCHANGED appVars

\* fetch: the listener runs for a request of the page
SwFetch ==
    /\ sw.phase = "activated"
    /\ sw.ev = NoEvent
    /\ Len(sw.served) < MaxEvents
    /\ \E u \in RequestUrls :
          sw' = [sw EXCEPT !.ev = IF IsNetworkFirst(u)
                                  THEN [url |-> u, stage |-> "network-first", net |-> "pending"]
                                  ELSE [url |-> u, stage |-> "cache-first", net |-> "none"]]
    /\ UNCHANGED <<caches, appVars>>

\* fetch: fetch(e.request) settles
SwNetworkSettles ==
    /\ sw.ev.net = "pending"
    /\ \E ok \in BOOLEAN :
          sw' = IF ok THEN Respond([sw EXCEPT !.ev.net = "ok"], NetworkResponse(sw.ev.url))
                ELSE IF sw.ev.stage = "network-first"
                THEN [sw EXCEPT !.ev.net = "failed", !.ev.stage = "fallback"]
                ELSE Respond([sw EXCEPT !.ev.net = "failed"], Undefined)
    /\ UNCHANGED <<caches, appVars>>

\* fetch: caches.match(e.request) settles
SwMatchSettles ==
    /\ sw.ev.stage \in {"cache-first", "fallback"}
    /\ sw.ev.net # "pending"
    /\ LET response == CachesMatch(caches, sw.ev.url)
       IN  sw' = IF sw.ev.stage = "fallback" \/ response # Undefined
                 THEN Respond(sw, response)
                 ELSE [sw EXCEPT !.ev.net = "pending"]
    /\ UNCHANGED <<caches, appVars>>

SwNext ==
    \/ SwInstall
    \/ SwCacheOpened
    \/ SwAddAllSettles
    \/ SwActivate
    \/ SwKeysSettle
    \/ SwDeleteSettles
    \/ SwFetch
    \/ SwNetworkSettles
    \/ SwMatchSettles

SwSpec == SwInit /\ [][SwNext]_vars

----------------------------------------------------------------------------
(* Properties *)

\* the handler is suspended exactly while the button is disabled, on one
\* fetch or one timer
Sanity ==
    /\ btnDisabled <=> pc # "idle"
    /\ Cardinality(inflight) + Cardinality(timers) = (IF pc = "idle" THEN 0 ELSE 1)
    /\ runNo <= MaxRuns

RECURSIVE ExpectedContent(_, _)
\* pages 1..n of story s as the site serves them, joined by the separator
ExpectedContent(s, n) ==
    IF n = 1 THEN Fragment(s, 1)
    ELSE ExpectedContent(s, n - 1) \o PAGE_BREAK \o Fragment(s, n)

\* the page fetches of the j-th fetchAllPagesOfStory call of the run
PageFetches(j) == SelectSeq(fetches, LAMBDA f : f.who = "page" /\ f.ch = j)

\* the story a start URL addresses
StoryOf(startUrl) == Resolve(startUrl).s

\* number of occurrences of the separator in a chapter's content
Separators(content) == Cardinality({i \in 1..Len(content) : <<content[i]>> = PAGE_BREAK})

\* C1: a chapter of K <= 50 pages, whose pages 1..K-1 carry a next-link and
\* whose page K carries none, is fetched in exactly K page fetches, pages 1..K
\* in order, and comes back as page 1's fragment followed by separator and
\* fragment for each of the pages 2..K (K-1 separators).
C1_PaginateExactlyKPages ==
    \A j \in 1..Len(returned) :
        LET s == StoryOf(returned[j].startUrl)
            K == Pages(site, s)
            fs == PageFetches(j)
        IN  K <= MAX_PAGES =>
              /\ Len(fs) = K
              /\ \A i \in 1..K : fs[i].page = i /\ Resolve(fs[i].url) = [kind |-> "story", s |-> s, p |-> i]
              /\ returned[j].content = ExpectedContent(s, K)
              /\ Separators(returned[j].content) = K - 1
              /\ <<returned[j].content[1]>> # PAGE_BREAK
              /\ <<returned[j].content[Len(returned[j].content)]>> # PAGE_BREAK

\* a chapter of exactly MAX_PAGES pages has been paginated to its end
C1_Witness ==
    \E j \in 1..Len(returned) :
        Pages(site, StoryOf(returned[j].startUrl)) = MAX_PAGES /\ Len(PageFetches(j)) = MAX_PAGES

\* C2: no pagination ever issues more than 50 page fetches for one chapter;
\* when every page advertises a next-link, the pagination stops after the 50th
\* fetch, waits out its delay and returns normally (no error) the 50 fragments
\* joined by 49 separators.
C2_BoundedAtMaxPages ==
    /\ \A j \in 1..(Len(returned) + 1) : Len(PageFetches(j)) <= MAX_PAGES
    /\ \A i \in 1..Len(fetches) : fetches[i].who = "page" => fetches[i].page <= MAX_PAGES
    /\ (detect.ran /\ detect.page = MAX_PAGES /\ detect.nextLink # 0) =>
          \/ pc = "awaitPageDelay" /\ pag.pageNum = MAX_PAGES + 1
          \/ /\ outcome.kind # "error"
             /\ Len(returned) >= 1
             /\ Len(PageFetches(Len(returned))) = MAX_PAGES
    /\ \A j \in 1..Len(returned) :
          LET s == StoryOf(returned[j].startUrl)
          IN  Pages(site, s) > MAX_PAGES =>
                /\ Len(PageFetches(j)) = MAX_PAGES
                /\ returned[j].content = ExpectedContent(s, MAX_PAGES)
                /\ Separators(returned[j].content) = MAX_PAGES - 1

\* a chapter all of whose fetched pages advertise a next-link has returned
C2_Witness ==
    \E j \in 1..Len(returned) :
        /\ Pages(site, StoryOf(returned[j].startUrl)) > MAX_PAGES
        /\ outcome.kind # "error"

\* the start URL up to its first "?"
WithoutQuery(u) ==
    LET n == CHOOSE n \in 0..Len(u) :
                /\ \A i \in 1..n : u[i] # "?"
                /\ (n < Len(u) => u[n + 1] = "?")
    IN  SubSeq(u, 1, n)

\* C3: page 1 is requested at the start URL without its query string and
\* without a page parameter, page N > 1 at exactly that base + "?page=" + N;
\* nothing of the caller's query string reaches a requested URL.
C3_PageAddressing ==
    \A i \in 1..Len(fetches) :
        LET f == fetches[i]
        IN  f.who = "page" =>
              /\ f.page = 1 => f.url = WithoutQuery(f.start) /\ ~Includes(f.url, <<"?">>)
              /\ f.page > 1 => f.url = WithoutQuery(f.start) \o <<"?", "page=">> \o NumStr(f.page)

\* page 2 of a story was requested although the operator's URL carried ?page=3
C3_Witness ==
    \E i \in 1..Len(fetches) :
        /\ fetches[i].who = "page"
        /\ fetches[i].page = 2
        /\ Includes(fetches[i].start, <<"?", "page=", "3">>)

\* a response the run cannot go on from, by the site's own account
BadResponse(ev) == ev.e = "resp" /\ ev.tag # "good"

\* an archive built or saved by the current run
ArchiveOfRun ==
    \/ \E k \in 1..Len(jobs) : jobs[k].run = runNo
    \/ \E k \in 1..Len(downloads) : downloads[k].run = runNo

\* a response to a request of the pagination loop or to the series request;
\* single-story mode's first request, made for the metadata only, is the other kind
ContentWanted(i) == i > 1 /\ trace[i - 1].e = "fetch" /\ trace[i - 1].tag # "meta"

\* a response the code cannot go on from: a bad one, but for a page without
\* content container where no content is looked for
FatalResponse(i) ==
    BadResponse(trace[i]) /\ (trace[i].tag = "unknown-layout" => ContentWanted(i))

\* C4 as claimed: whichever page of a run has no recognized content container
\* (or whichever fetch fails, or a series page lists no chapter), that response
\* is the last event of the run, which is aborted without archive.
C4_AnyPageWithoutContentAborts ==
    \A i \in 1..Len(trace) :
        BadResponse(trace[i]) =>
            /\ i = Len(trace)
            /\ outcome.kind = "error"
            /\ pc = "idle" /\ inflight = {} /\ timers = {}
            /\ ~ArchiveOfRun

\* C4, amended: once a fetch fails (transport, HTTP status, challenge page), a
\* page fetched by the pagination loop has no recognized content container, or
\* the series page lists no chapter, the run is over: that response is the last
\* event of the run (no further fetch, no retry, no timer), no archive of the
\* run is built or saved, whatever chapters were collected, and the step that
\* aborts writes the error message to the status element.
C4_FailureAbortsRun ==
    /\ [](\A i \in 1..Len(trace) :
             FatalResponse(i) =>
                /\ i = Len(trace)
                /\ outcome.kind = "error"
                /\ pc = "idle" /\ inflight = {} /\ timers = {}
                /\ ~ArchiveOfRun)
    /\ [][(outcome'.kind = "error" /\ outcome # outcome') =>
             /\ status' = ErrorStatus(outcome'.message)
             /\ FatalResponse(Len(trace))'
             /\ fetches' = fetches
             /\ jobs' = jobs /\ downloads' = downloads]_vars
    /\ [][(outcome.kind = "error" /\ runNo' = runNo) =>
             fetches' = fetches /\ inflight' = {} /\ timers' = {}]_vars

\* a series run failed on a page of its second chapter, after the first
\* chapter had been collected
C4_Witness ==
    /\ outcome.kind = "error"
    /\ Len(returned) >= 1
    /\ FatalResponse(Len(trace))
    /\ fetches[Len(fetches)].ch = 2

\* the label fetchPage's catch puts on what it rethrows
IsNetworkError(message) == StartsWith(message, <<"Network error: ">>)

\* C5: a page whose title contains "Just a moment" makes fetchPage fail with
\* an error of a kind other than the network error of a non-2xx status or a
\* transport failure, and the run ends without an archive.
C5_BlockedErrorIsDistinct ==
    (Len(trace) > 0 /\ trace[Len(trace)] = Event("resp", "challenge", 0)) =>
        /\ outcome.kind = "error"
        /\ ~IsNetworkError(outcome.message)
        /\ ~ArchiveOfRun

\* the run is a series run
SeriesRun == Len(fetches) >= 1 /\ fetches[1].who = "series"

\* the absolute form of an entry's href
Absolute(href) == IF StartsWith(href, SITE_ORIGIN) THEN href ELSE SITE_ORIGIN \o href

\* the chapter documents of an archive, in spine order
SpineDocs(zip) ==
    LET opf == (CHOOSE e \in {zip[i] : i \in 1..Len(zip)} : e.name = <<"content.opf">>).data
    IN  [i \in 1..Len(opf.spine) |->
            (CHOOSE e \in {zip[k] : k \in 1..Len(zip)} :
                e.name = opf.spine[i].idref \o <<".html">>).data]

\* C6: a series page without chapter links fails the run with "No chapters
\* found" before any chapter page is fetched; a series page with M >= 1 links
\* yields M chapters, processed in document order, each fetched at the absolute
\* form of its href (origin prefixed to a root-relative href, an absolute one
\* unchanged).
C6_SeriesEnumeration ==
    SeriesRun =>
        /\ site.M = 0 => Len(fetches) = 1
        /\ (site.M = 0 /\ Len(trace) >= 2 /\ trace[2].tag = "no-chapters") =>
              outcome = [kind |-> "error", message |-> <<"No chapters found on series page.">>]
        /\ \A i \in 2..Len(fetches) :
              /\ fetches[i].who = "page"
              /\ fetches[i].ch \in 1..site.M
              /\ fetches[i].start = Absolute(EntryHref(site, fetches[i].ch))
              /\ Resolve(fetches[i].url).s = fetches[i].ch
              /\ fetches[i - 1].ch <= fetches[i].ch
        /\ Len(returned) <= site.M
        /\ outcome.kind = "built" =>
              /\ Len(returned) = site.M
              /\ \A k \in 1..Len(jobs) :
                    jobs[k].run = runNo => Len(SpineDocs(jobs[k].zip)) = site.M

\* a series of two or more chapters, with hrefs of both forms, was packaged
C6_Witness ==
    /\ SeriesRun
    /\ outcome.kind = "built"
    /\ site.M >= 2
    /\ \E i, j \in 1..site.M : EntryHref(site, i) = Absolute(EntryHref(site, i))
                                /\ EntryHref(site, j) # Absolute(EntryHref(site, j))

\* the archives the current run has built ("built" is the run's last outcome,
\* so `returned` still holds the chapters handed to generateEpub)
BuiltZips == {jobs[k].zip : k \in {k \in 1..Len(jobs) : jobs[k].run = runNo}}

Entries(zip) == {zip[i] : i \in 1..Len(zip)}

Files(zip) == {e \in Entries(zip) : ~e.dir}

EntryNamed(zip, name) == CHOOSE e \in Entries(zip) : e.name = name

FixedFileNames ==
    { <<"mimetype">>, <<"META-INF", "/", "container.xml">>, <<"content.opf">>, <<"toc.ncx">> }

Decimal == << <<"1">>, <<"2">>, <<"3">>, <<"4">>, <<"5">>, <<"6">>, <<"7">>, <<"8">>, <<"9">> >>

\* "chapter{i}"
ChapterIdOf(i) == <<"chapter">> \o Decimal[i]

\* "chapter{i}.html"
ChapterFileOf(i) == <<"chapter">> \o Decimal[i] \o <<".html">>

\* C7 as claimed: the archive of an N-chapter list has N + 3 named entries.
C7_ThreeFixedEntries ==
    \A zip \in BuiltZips : Cardinality(Files(zip)) = Len(returned) + 3

\* C7, amended: the archive of an N-chapter list has exactly N + 4 file
\* entries, all of different names: the 4 fixed files mimetype,
\* META-INF/container.xml, content.opf and toc.ncx, and one content document
\* per chapter; its only other entry is the folder entry META-INF/.
C7_FourFixedEntries ==
    \A zip \in BuiltZips :
        LET N == Len(returned)
        IN  /\ Cardinality(Files(zip)) = N + 4
            /\ {e.name : e \in Files(zip)} = FixedFileNames \cup {ChapterFileOf(i) : i \in 1..N}
            /\ Cardinality({e.name : e \in Files(zip)}) = N + 4
            /\ Len(zip) = N + 5
            /\ {e.name : e \in Entries(zip) \ Files(zip)} = {<<"META-INF", "/">>}

\* an archive of two or more chapters was built
C7_Witness == \E zip \in BuiltZips : Len(returned) >= 2 /\ Len(zip) >= 7

\* C8: chapter i of N is written to chapter{i}.html; the manifest holds the
\* navigation document and one item chapter{i} per chapter; the i-th itemref of
\* the spine references chapter{i}; the i-th navPoint has playOrder i and
\* points at chapter{i}.html; spine and navMap have N elements each.
C8_ManifestSpineNavMap ==
    \A zip \in BuiltZips :
        LET N == Len(returned)
            opf == EntryNamed(zip, <<"content.opf">>).data
            ncx == EntryNamed(zip, <<"toc.ncx">>).data
        IN  /\ Len(opf.manifest) = N + 1
            /\ opf.manifest[1].id = <<"ncx">> /\ opf.manifest[1].href = <<"toc.ncx">>
            /\ Len(opf.spine) = N
            /\ Len(ncx.navMap) = N
            /\ \A i \in 1..N :
                  /\ \E e \in Files(zip) :
                        /\ e.name = ChapterFileOf(i)
                        /\ e.data.body = ReplaceNbsp(returned[i].content)
                        /\ e.data.h2 = ncx.navMap[i].text
                  /\ opf.manifest[i + 1].id = ChapterIdOf(i)
                  /\ opf.manifest[i + 1].href = ChapterFileOf(i)
                  /\ opf.spine[i].idref = ChapterIdOf(i)
                  /\ ncx.navMap[i].playOrder = Decimal[i]
                  /\ ncx.navMap[i].src = ChapterFileOf(i)

\* an archive whose navMap has a second navPoint was built
C8_Witness ==
    \E zip \in BuiltZips :
        LET ncx == EntryNamed(zip, <<"toc.ncx">>).data
        IN  Len(ncx.navMap) >= 2 /\ ncx.navMap[2].playOrder = <<"2">>

\* what the pagination of the i-th series entry comes to, by the site's account
EntryContent(i) == ExpectedContent(i, Min(Pages(site, i), MAX_PAGES))

\* the text of the i-th series entry without the surrounding white space
EntryTitle(i) == <<"Ch ">> \o Decimal[i]

\* C9: in series mode the chapters collected are, in order, the entries of the
\* series page, each with its own title and its own pages only; after a
\* successful run over M entries the i-th spine item of the archive holds the
\* title and the paginated content of the i-th entry, for every i in 1..M.
C9_SeriesOrderPreserved ==
    SeriesRun =>
        /\ \A i \in 1..Len(ser.chapters) :
              /\ ser.chapters[i].title = EntryTitle(i)
              /\ ser.chapters[i].content = EntryContent(i)
        /\ \A i \in 1..Len(returned) : returned[i].content = EntryContent(i)
        /\ \A zip \in BuiltZips :
              /\ Len(SpineDocs(zip)) = site.M
              /\ \A i \in 1..site.M :
                    /\ SpineDocs(zip)[i].title = EntryTitle(i)
                    /\ SpineDocs(zip)[i].h2 = EntryTitle(i)
                    /\ SpineDocs(zip)[i].body = ReplaceNbsp(EntryContent(i))

\* a series of two or more chapters, one of them of several pages, was packaged
C9_Witness ==
    /\ SeriesRun
    /\ \E zip \in BuiltZips : Len(SpineDocs(zip)) >= 2
    /\ \E i \in 1..site.M : Pages(site, i) >= 2

\* the sample anchors that meet one of the six conditions, and those that meet none
AcceptedAnchors == {A_textNext, A_textNextRaquo, A_raquo, A_clsPager, A_clsBPager, A_titleNext}

RejectedAnchors == {A_home, A_prev, A_nextChapter}

\* the first anchor of a list, in document order, that meets a condition; 0 if none
FirstAccepted(links) ==
    IF \E i \in 1..Len(links) : links[i] \in AcceptedAnchors
    THEN CHOOSE i \in 1..Len(links) :
            links[i] \in AcceptedAnchors /\ \A j \in 1..(i - 1) : links[j] \notin AcceptedAnchors
    ELSE 0

\* C10: on every page it runs on, the detector finds the first anchor, in
\* document order, that meets one of the six conditions, and none if no anchor
\* meets one; the pagination goes on to the next page exactly if an anchor was
\* found and the page bound is not reached, and returns otherwise.
C10_NextPageDetector ==
    /\ detect.ran =>
          /\ \A i \in 1..Len(detect.links) : detect.links[i] \in AcceptedAnchors \cup RejectedAnchors
          /\ detect.nextLink = FirstAccepted(detect.links)
          /\ pc = "awaitPageDelay" =>
                /\ FirstAccepted(detect.links) # 0
                /\ pag.hasNext /\ pag.pageNum = detect.page + 1
          /\ (FirstAccepted(detect.links) # 0 /\ detect.page < MAX_PAGES) =>
                pc = "awaitPageDelay"
          /\ pc # "awaitPageDelay" =>
                /\ FirstAccepted(detect.links) = 0 \/ detect.page = MAX_PAGES
                /\ pc \in {"idle", "awaitChapterDelay"}
                /\ Len(returned) >= 1
                /\ Len(PageFetches(Len(returned))) = detect.page
    /\ \A i \in 1..Len(fetches) :
          (fetches[i].who = "page" /\ fetches[i].page > 1) =>
              /\ fetches[i].page <= MAX_PAGES
              /\ FirstAccepted(AnchorsOf(site, StoryOf(fetches[i].start), fetches[i].page - 1)) # 0
    /\ \A j \in 1..Len(returned) :
          LET last == Len(PageFetches(j))
          IN  \/ last = MAX_PAGES
              \/ FirstAccepted(AnchorsOf(site, StoryOf(returned[j].startUrl), last)) = 0

\* the detector ran on a page with two anchors that meet a condition, and took the first
C10_Witness ==
    /\ detect.ran
    /\ Cardinality({i \in 1..Len(detect.links) : detect.links[i] \in AcceptedAnchors}) = 2
    /\ detect.nextLink = 2
    /\ detect.links[3] \in AcceptedAnchors

\* the package document of an archive
Opf(zip) == EntryNamed(zip, <<"content.opf">>).data

\* the message of extractStoryContent's error
ContentNotFound ==
    <<"Could not locate story text. The page structure might be unknown or blocked.">>

\* C11 as claimed: whichever fetched page has no recognized content container,
\* the run is aborted on it with the content error.
C11_AnyContentMissAborts ==
    \A i \in 1..Len(trace) :
        trace[i] = Event("resp", "unknown-layout", 0) =>
            /\ i = Len(trace)
            /\ outcome = [kind |-> "error", message |-> ContentNotFound]

\* C11, amended: a page fetched by the pagination loop on which no content
\* selector matches aborts the run with the content error (it is the last
\* event of the run, and no archive is built); a page without title or author
\* element never does: every abort follows a failed fetch, a page of the
\* pagination loop without content container or an empty series page, a run
\* whose last page was good ends with an archive, and on a site whose pages
\* carry neither element the archive bears the sentinel title and author.
C11_ContentMissFatalMetadataMissNot ==
    /\ \A i \in 1..Len(trace) :
          (trace[i] = Event("resp", "unknown-layout", 0) /\ ContentWanted(i)) =>
              /\ i = Len(trace)
              /\ outcome = [kind |-> "error", message |-> ContentNotFound]
              /\ ~ArchiveOfRun
    /\ outcome.kind = "error" => FatalResponse(Len(trace))
    /\ (Len(trace) > 0 /\ trace[Len(trace)] = Event("resp", "good", 0)) =>
          outcome.kind = "built"
    /\ site.alt =>
          \A zip \in BuiltZips :
              /\ Opf(zip).title =
                    (IF SeriesRun THEN <<"Unknown Series">> ELSE <<"Unknown Title">>)
              /\ Opf(zip).creator = <<"Unknown Author">>

\* a single story whose pages carry no title and no author element was packaged
C11_Witness ==
    /\ site.alt
    /\ ~SeriesRun
    /\ \E zip \in BuiltZips : Opf(zip).title = <<"Unknown Title">>

\* the places of the trace at which the fetches of the run were issued, in order
FetchPlaces == SelectSeq([i \in 1..Len(trace) |-> i], LAMBDA i : trace[i].e = "fetch")

\* what happened between two places of the trace
Between(a, b) == SubSeq(trace, a + 1, b - 1)

\* C12: between two consecutive page fetches of one chapter the earlier page
\* is answered, then a 300 ms timer is set and fires, and nothing else happens;
\* between the last page fetch of a chapter and the first of the next chapter
\* the page is answered and a 500 ms timer is set and fires just before the
\* fetch; a timer that was set is the next thing to complete, and while one is
\* pending no request is in flight.
C12_PolitenessDelays ==
    /\ LET at == FetchPlaces
       IN  \A k \in 2..Len(fetches) :
          (fetches[k].who = "page" /\ fetches[k - 1].who = "page") =>
              IF fetches[k].ch = fetches[k - 1].ch
              THEN /\ fetches[k].page = fetches[k - 1].page + 1
                   /\ Between(at[k - 1], at[k]) = << Event("resp", "good", 0),
                                      Event("timer", "", 300), Event("fired", "", 300) >>
              ELSE /\ fetches[k].page = 1
                   /\ Between(at[k - 1], at[k]) \in
                        { << Event("resp", "good", 0),
                             Event("timer", "", 500), Event("fired", "", 500) >>,
                          << Event("resp", "good", 0),
                             Event("timer", "", 300), Event("fired", "", 300),
                             Event("timer", "", 500), Event("fired", "", 500) >> }
    /\ \A i \in 1..(Len(trace) - 1) :
          trace[i].e = "timer" => trace[i + 1] = Event("fired", "", trace[i].ms)
    /\ timers # {} =>
          /\ inflight = {}
          /\ trace[Len(trace)].e = "timer" /\ timers = {trace[Len(trace)].ms}
    /\ inflight # {} => trace[Len(trace)].e = "fetch"

\* a series run in which a page delay and a chapter delay were each followed by a fetch
C12_Witness ==
    /\ \E i \in 1..(Len(trace) - 1) :
          trace[i] = Event("fired", "", 300) /\ trace[i + 1].e = "fetch"
    /\ \E i \in 1..(Len(trace) - 1) :
          trace[i] = Event("fired", "", 500) /\ trace[i + 1].e = "fetch"

\* C13: at most one request is in flight, and it is the one issued last; a
\* fetch is never issued next to another (each follows a response or a timer);
\* page N > 1 of a chapter is requested only after page N-1 of that chapter was
\* requested and answered with a good page, whose anchors hold a next-link;
\* and while page N is awaited the content collected is that of pages 1..N-1.
C13_SequentialFetches ==
    /\ Cardinality(inflight) <= 1
    /\ \A req \in inflight : req.url = fetches[Len(fetches)].url
    /\ \A i \in 2..Len(trace) :
          trace[i].e = "fetch" => trace[i - 1].e \in {"resp", "fired"}
    /\ Cardinality({i \in 1..Len(trace) : trace[i].e = "fetch"}) = Len(fetches)
    /\ Cardinality({i \in 1..Len(trace) : trace[i].e = "resp"})
          = Len(fetches) - Cardinality(inflight)
    /\ LET at == FetchPlaces
       IN  \A k \in 1..Len(fetches) :
              (fetches[k].who = "page" /\ fetches[k].page > 1) =>
                  /\ k > 1
                  /\ fetches[k - 1].who = "page"
                  /\ fetches[k - 1].ch = fetches[k].ch
                  /\ fetches[k - 1].page = fetches[k].page - 1
                  /\ trace[at[k - 1] + 1] = Event("resp", "good", 0)
                  /\ at[k - 1] + 1 < at[k]
                  /\ FirstAccepted(AnchorsOf(site, StoryOf(fetches[k].start),
                                             fetches[k].page - 1)) # 0
    /\ (pc = "awaitStoryPage" /\ pag.pageNum > 1) =>
          pag.fullHtml = ExpectedContent(StoryOf(pag.startUrl), pag.pageNum - 1)
    /\ (pc = "awaitStoryPage" /\ pag.pageNum = 1) => pag.fullHtml = <<>>

\* the third page of a chapter is awaited, alone
C13_Witness ==
    /\ pc = "awaitStoryPage"
    /\ pag.pageNum = 3
    /\ Cardinality(inflight) = 1
    /\ Len(PageFetches(Len(returned) + 1)) = 3

\* C14: in single-story mode the document the title and author are read from
\* is requested at the address of the story's first page, whatever query
\* string the entered URL carries; the archive bears the title and author of
\* that page (or the sentinels, where it has none), and holds exactly one
\* chapter, whose title is the book title.
C14_MetadataFromFirstPage ==
    (Len(fetches) >= 1 /\ ~SeriesRun) =>
        /\ fetches[1].who = "meta"
        /\ Resolve(fetches[1].url).kind = "story"
        /\ Resolve(fetches[1].url).p = 1
        /\ \A k \in 2..Len(fetches) :
              fetches[k].page = 1 =>
                  Resolve(fetches[k].url) = Resolve(fetches[1].url)
        /\ \A zip \in BuiltZips :
              /\ Opf(zip).title \in {<<"Story ", "1">>, <<"Unknown Title">>}
              /\ Opf(zip).creator \in {<<"author-", "1">>, <<"Unknown Author">>}
              /\ Len(SpineDocs(zip)) = 1
              /\ SpineDocs(zip)[1].title = Opf(zip).title

\* the first entry of the archive is the stored mimetype file, and no other
\* entry bears its name
MimetypeFirst(zip) ==
    /\ Len(zip) >= 1
    /\ zip[1] = [ name |-> <<"mimetype">>, dir |-> FALSE, compression |-> "STORE",
                  data |-> <<"application/epub+zip">> ]
    /\ \A i \in 2..Len(zip) : zip[i].name # <<"mimetype">>

\* the archives handed to zip.generateAsync or to saveAs so far
AllZips == {jobs[k].zip : k \in 1..Len(jobs)} \cup {downloads[k].zip : k \in 1..Len(downloads)}

\* C15: in every archive built, and in every archive saved, the entry named
\* mimetype is the first entry, is stored without compression and holds exactly
\* application/epub+zip; so it is in the archive of the empty chapter list.
C15_MimetypeFirstStored ==
    /\ \A zip \in AllZips : MimetypeFirst(zip)
    /\ MimetypeFirst(BuildZip(<<"T">>, <<"A">>, <<>>))
    /\ Len(BuildZip(<<"T">>, <<"A">>, <<>>)) = 5

\* an archive of two chapters was saved
C15_Witness ==
    \E k \in 1..Len(downloads) :
        /\ Len(downloads[k].zip) >= 7
        /\ downloads[k].zip[1].compression = "STORE"

\* the keys of the caches that exist
KeysInStorage == {caches[i].key : i \in 1..Len(caches)}

\* C16: once the worker is activated no cache exists under a key other than
\* "webtoepub-v5"; from the end of the installation on, whatever caches there
\* were before, the cache of that key exists and holds the application's
\* assets, and the activation never has it deleted.
C16_OnlyCurrentCacheSurvives ==
    /\ sw.phase = "activated" => KeysInStorage = {"webtoepub-v5"}
    /\ sw.phase \in {"installed", "activating", "activated"} =>
          \E i \in 1..Len(caches) :
              /\ caches[i].key = "webtoepub-v5"
              /\ {<<SwScope>>, <<SwScope, "index.html">>, <<SwScope, "style.css">>,
                  <<SwScope, "app.js">>, <<SwScope, "manifest.json">>} \subseteq caches[i].urls
    /\ "webtoepub-v5" \notin sw.deleting
    /\ sw.deleting \subseteq KeysInStorage

\* a worker that found four caches, one of them under its own key, is activated
C16_Witness ==
    /\ sw.phase = "activated"
    /\ Len(sw.keyList) = 4
    /\ Len(caches) = 1

\* the URLs of the application script among the requests
AppScriptUrls == {<<SwScope, "app.js">>, <<SwScope, "app.js", "?v=2">>}

\* a copy of the response to u is in some cache
Stored(u) == \E i \in 1..Len(caches) : u \in caches[i].urls

\* C17: a request for the application script is answered from the network
\* whenever the network request succeeds, cached copy or not, and from the
\* cache only when the network request failed; any other request is answered
\* from the cache whenever a copy is there, without the network being
\* contacted, and the network is contacted only on a miss.
C17_NetworkFirstForAppScript ==
    /\ \A k \in 1..Len(sw.served) :
          LET r == sw.served[k]
          IN  IF r.url \in AppScriptUrls
              THEN /\ r.net \in {"ok", "failed"}
                   /\ r.net = "ok" => r.answer = [from |-> "network", key |-> "", url |-> r.url]
                   /\ r.net = "failed" =>
                         r.answer.from = (IF Stored(r.url) THEN "cache" ELSE "none")
              ELSE /\ Stored(r.url) => r.answer.from = "cache" /\ r.net = "none"
                   /\ ~Stored(r.url) =>
                         /\ r.net \in {"ok", "failed"}
                         /\ r.answer.from = (IF r.net = "ok" THEN "network" ELSE "none")
    /\ (sw.ev.net = "pending" /\ sw.ev.url \notin AppScriptUrls) => ~Stored(sw.ev.url)
    /\ (sw.ev # NoEvent /\ sw.ev.url \in AppScriptUrls) => sw.ev.net # "none"
    /\ \A k \in 1..Len(sw.served) :
          sw.served[k].answer.from = "cache" => sw.served[k].answer.url = sw.served[k].url

\* the cached application script was passed over for the network's answer,
\* and a cached page was served without the network
C17_Witness ==
    /\ \E k \in 1..Len(sw.served) :
          /\ sw.served[k].url = <<SwScope, "app.js">>
          /\ Stored(<<SwScope, "app.js">>)
          /\ sw.served[k].answer.from = "network"
    /\ \E k \in 1..Len(sw.served) :
          /\ sw.served[k].url = <<SwScope, "index.html">>
          /\ sw.served[k].answer.from = "cache"
          /\ sw.served[k].net = "none"

\* C18: while an archive of a run is being generated, not yet saved, the
\* convert button is disabled; so no run starts before the archive of the run
\* before it is saved, and the archives pending are of the current run.
C18_DisabledUntilSaved ==
    /\ jobs # <<>> => btnDisabled
    /\ \A k \in 1..Len(jobs) : jobs[k].run = runNo
    /\ Len(jobs) <= 1

\* what was typed is white space only
BlankInput == \A i \in 1..Len(urlInput) : urlInput[i] \in {" ", "\n", "\t"}

\* what was typed names a series
SeriesInput == \E i \in 1..Len(urlInput) : urlInput[i] = "/series/se/"

\* C19: a blank input starts no run: no fetch, the button stays enabled, no
\* archive, only the prompt in the status element; any other input containing
\* "/series/se/" makes the first fetch the series page and the archive one
\* chapter per entry; any other input makes it the metadata fetch of a single
\* story, followed by the pages of one chapter only, and the archive holds
\* exactly one chapter.
C19_ModeDispatch ==
    /\ BlankInput =>
          /\ runNo = 0 /\ ~btnDisabled /\ pc = "idle"
          /\ fetches = <<>> /\ inflight = {} /\ trace = <<>>
          /\ jobs = <<>> /\ downloads = <<>>
          /\ status \in {<<>>, <<"Please enter a URL">>}
    /\ (~BlankInput /\ Len(fetches) >= 1) =>
          IF SeriesInput
          THEN /\ fetches[1].who = "series"
               /\ Resolve(fetches[1].url).kind = "series"
               /\ \A k \in 2..Len(fetches) : fetches[k].who = "page"
               /\ \A zip \in BuiltZips : Len(SpineDocs(zip)) = site.M
          ELSE /\ fetches[1].who = "meta"
               /\ Resolve(fetches[1].url).kind = "story"
               /\ \A k \in 2..Len(fetches) : fetches[k].who = "page" /\ fetches[k].ch = 1
               /\ Len(returned) <= 1
               /\ \A zip \in BuiltZips : Len(SpineDocs(zip)) = 1
    /\ (~BlankInput /\ runNo > 0) => Len(fetches) >= 1

\* a story typed without scheme, between white space, was packaged as a single story
C19_Witness ==
    /\ Len(urlInput) >= 1 /\ urlInput[1] = " "
    /\ ~BlankInput
    /\ Len(fetches) >= 1 /\ fetches[1].who = "meta"
    /\ \E zip \in BuiltZips : Len(SpineDocs(zip)) = 1

\* C20: if every fetch settles and every timer fires, a run that disabled the
\* button ends and the button is enabled again, after a failure as well; a
\* series run over M chapters issues at most 1 + 50 * M fetches, a
\* single-story run at most 51; a run that is over has built its archive or
\* failed, and the step on which it fails writes the error to the status
\* element and enables the button.
C20_RunsTerminate ==
    /\ [](Len(fetches) <= (IF SeriesRun THEN 1 + 50 * site.M ELSE 51))
    /\ []((pc = "idle" /\ runNo > 0) =>
             /\ ~btnDisabled
             /\ inflight = {} /\ timers = {}
             /\ outcome.kind \in {"built", "error"}
             /\ outcome.kind = "built" => ArchiveOfRun
             /\ outcome.kind = "error" => ~ArchiveOfRun /\ outcome.message # <<>>)
    /\ [][(outcome'.kind = "error" /\ outcome # outcome') =>
             status' = ErrorStatus(outcome'.message) /\ btnDisabled /\ ~btnDisabled']_vars
    /\ (btnDisabled ~> ~btnDisabled)

\* a single-story run has ended after its 51 fetches
C20_Witness ==
    /\ ~SeriesRun
    /\ Len(fetches) = 51
    /\ pc = "idle"
    /\ ~btnDisabled

=============================================================================
